---- MODULE Spec2Model ----
(***************************************************************************)
(* Data-quality scoring and alerting engine of the competitive-            *)
(* intelligence backend.  Two entry points are modelled:                   *)
(*   - DataQualityPipeline  (backend/src/data_quality_pipeline.py)         *)
(*   - DataQualityHandler   (backend/src/handlers/data_quality.py)         *)
(* together with the OpenSearchService and S3Service wrappers they call.   *)
(*                                                                         *)
(* Scores are Python floats in the source; they are modelled as exact      *)
(* fractions [n, d] in lowest terms (rounding of floats is not modelled).  *)
(* The replies of the document store, of the accuracy validator and the    *)
(* availability of S3 / OpenSearch indexing / SNS are inputs.              *)
(***************************************************************************)
EXTENDS Integers, Sequences, FiniteSets, TLC

\* ------------------------------------------------------------------ state
VARIABLES
    pc,                \* "idle" | "running" | "done": position of the invocation
    prog,              \* "none" | "pipeline" | "handler": the entry point invoked
    check_type,        \* the check type lambda_handler resolved from the event
    pending,           \* check methods the run still has to call, in call order
    results,           \* results collected by a comprehensive / quick run, in order
    response,          \* what lambda_handler returned
    s3_objects,        \* objects put into the metadata bucket, in order
    os_indices,        \* documents indexed by the run, per OpenSearch index, in order
    sns_messages,      \* messages the alert topic accepted, in order
    up,                \* which collaborators accept writes during this invocation
    invoked,           \* history: check methods called so far, in call order
    alerts_generated,  \* history: alert_data built by the alert generators, in order
    collections,       \* what the audited indices hold, as the check method reads it
    audit,             \* inputs and per-index results of the last audited check method
    previous,          \* audit of the same check method run before the last one
    now                \* the clock in whole seconds: int(datetime.now().timestamp())

\* the state of an invocation
run_vars == <<pc, prog, check_type, pending, results, response, s3_objects,
              os_indices, sns_messages, up, invoked, alerts_generated>>

\* the state that follows the inputs of a single check method, and the
\* clock, which advances between invocations only
audit_vars == <<collections, audit, previous, now>>

vars == <<pc, prog, check_type, pending, results, response, s3_objects,
          os_indices, sns_messages, up, invoked, alerts_generated,
          collections, audit, previous, now>>

\* ---------------------------------------------------------------- bounds
\* largest number of documents a search returns as hits
MaxHits == 1
\* largest number of documents an index holds when it is counted
MaxCounted == 1
\* largest number of documents an index holds when its keys are aggregated
MaxKeyed == 2
\* largest number of count calls that fall back to mock data in one checker
MaxCountFailures == 1
\* largest number of client calls that raise while one check method is audited
MaxFailedCalls == 1
\* largest number of documents an index holds when a uniqueness check is audited
MaxAuditedKeyed == 3
\* largest number of seconds between two invocations
MaxElapsed == 1

\* ------------------------------------------------------------- fractions
\* The operators below apply a function to their arguments, so that an
\* argument is evaluated once however often the definition uses it.
Fractions == [n : Int, d : Int]

gcd[a \in Int, b \in Int] == IF b = 0 THEN a ELSE gcd[b, a % b]
GCD(a, b) == gcd[a, b]

\* a / b for integers a >= 0, b > 0 (Python true division)
true_division[a \in Int, b \in Int] ==
    LET g == gcd[a, b] IN [n |-> a \div g, d |-> b \div g]
Frac(a, b) == true_division[a, b]

\* x + y over the least common denominator, which keeps the intermediate
\* products small
fraction_add[x \in Fractions, y \in Fractions] ==
    LET g == gcd[x.d, y.d]
    IN true_division[x.n * (y.d \div g) + y.n * (x.d \div g), (x.d \div g) * y.d]
FAdd(x, y) == fraction_add[x, y]

fraction_div_int[x \in Fractions, k \in Int] ==
    LET g == gcd[x.n, k] IN true_division[x.n \div g, x.d * (k \div g)]
FDivInt(x, k) == fraction_div_int[x, k]

fraction_mul_int[x \in Fractions, k \in Int] ==
    LET g == gcd[x.d, k] IN true_division[x.n * (k \div g), x.d \div g]
FMulInt(x, k) == fraction_mul_int[x, k]

fraction_less[x \in Fractions, y \in Fractions] ==
    LET g == gcd[x.d, y.d]
    IN x.n * (y.d \div g) < y.n * (x.d \div g)
FLt(x, y) == fraction_less[x, y]
FGe(x, y) == ~FLt(x, y)
FGt(x, y) == FLt(y, x)
FInt(k) == Frac(k, 1)

\* sum(f[k] for k in DOMAIN f)
RECURSIVE FSumOver(_, _)
FSumOver(f, S) ==
    IF S = {} THEN FInt(0)
    ELSE LET k == CHOOSE x \in S : TRUE
         IN FAdd(f[k], FSumOver(f, S \ {k}))

\* sum(s[i] for i in 1..Len(s))
RECURSIVE FSumSeq(_)
FSumSeq(s) == IF s = <<>> THEN FInt(0) ELSE FAdd(Head(s), FSumSeq(Tail(s)))

\* sum(f[k] for k in S) for integers
RECURSIVE SumOver(_, _)
SumOver(f, S) ==
    IF S = {} THEN 0
    ELSE LET k == CHOOSE x \in S : TRUE
         IN f[k] + SumOver(f, S \ {k})

RECURSIVE SumSeq(_)
SumSeq(s) == IF s = <<>> THEN 0 ELSE Head(s) + SumSeq(Tail(s))

SeqsUpTo(S, k) == UNION {[1..m -> S] : m \in 0..k}

Max(a, b) == IF a >= b THEN a ELSE b

\* ------------------------------------------------------ OpenSearchService
\* the client call raised (store unreachable, bad query, ...)
ClientError == [client_error |-> TRUE]

\* OpenSearchService.search: an exception of the client is swallowed and an
\* empty result (without an 'aggregations' key) is returned instead
OpenSearchService_search(reply) ==
    IF reply = ClientError THEN [hits |-> <<>>, total |-> 0] ELSE reply

\* body of the count query built by count_documents: only the filter keys
\* 'severity' and 'date_range' == 'last_30_days' are recognised, any other
\* key leaves the match_all query in place
OpenSearchService_count_query(filters) ==
    LET used == {f \in DOMAIN filters :
                    \/ f = "severity"
                    \/ (f = "date_range" /\ filters[f] = "last_30_days")}
    IN IF used # {} THEN [bool_filter |-> used] ELSE [match_all |-> TRUE]

mock_counts ==
    [brands |-> 47, competitors |-> 156, alerts |-> 25, regulatory |-> 12,
     trials |-> 1247, patents |-> 892, news |-> 3456]

OpenSearchService_get_mock_count(index, filters) ==
    LET base_count == IF index \in DOMAIN mock_counts THEN mock_counts[index] ELSE 100
    IN IF "severity" \in DOMAIN filters /\ filters["severity"] = "critical"
         THEN Max(1, base_count \div 10)
       ELSE IF "date_range" \in DOMAIN filters /\ filters["date_range"] = "last_30_days"
         THEN Max(1, base_count \div 3)
       ELSE base_count

\* OpenSearchService.count_documents.  filters is a record (<<>> for None);
\* counts = [total, matching] is what the index holds (all documents, and
\* documents that satisfy the caller's filter); ok = the client call worked
OpenSearchService_count_documents(index, filters, counts, ok) ==
    IF ok
      THEN IF OpenSearchService_count_query(filters) = [match_all |-> TRUE]
             THEN counts.total
             ELSE counts.matching
      ELSE OpenSearchService_get_mock_count(index, filters)

\* ------------------------------------------------- DataQualityPipeline
quality_thresholds ==
    [completeness |-> Frac(85, 100), accuracy |-> Frac(90, 100),
     timeliness |-> 24, consistency |-> Frac(95, 100),
     uniqueness |-> Frac(98, 100)]

\* an exception reached the 'except Exception' clause of a check method
Raised == [error |-> TRUE]

\* json body of the 500 response of a check method
ErrorResponse == [statusCode |-> 500]

\* --- check_data_completeness
required_fields ==
    [papers |-> {"id", "title", "abstract", "publishedDate", "source"},
     trials |-> {"id", "title", "phase", "status", "sponsor"},
     regulatory |-> {"id", "dataType", "brand", "source"},
     patents |-> {"id", "title", "assignee", "filingDate"},
     alerts |-> {"id", "title", "severity", "source", "createdAt"}]

\* a document is the set of fields for which source_data.get(field) is truthy
missing_fields(source_data, fields) == {field \in fields : field \notin source_data}

Pipeline_completeness_index(fields, documents) ==
    LET total_docs == Len(documents)
        complete_docs == Cardinality({i \in 1..total_docs :
                                         missing_fields(documents[i], fields) = {}})
        completeness_score == IF total_docs > 0 THEN Frac(complete_docs, total_docs)
                                                ELSE FInt(0)
    IN [total_documents |-> total_docs,
        complete_documents |-> complete_docs,
        completeness_score |-> completeness_score,
        meets_threshold |-> FGe(completeness_score, quality_thresholds.completeness)]

\* the quality report of check_data_completeness, or Raised.  replies[index]
\* is what the client answers to the search on that index; fault = some
\* other exception is raised inside the try block
Pipeline_completeness_results(replies) ==
    LET documents(index) == OpenSearchService_search(replies[index]).hits
        included == {index \in DOMAIN required_fields : documents(index) # <<>>}
    IN [index \in included |->
           Pipeline_completeness_index(required_fields[index], documents(index))]

Pipeline_completeness_report(replies, fault) ==
    LET completeness_results == Pipeline_completeness_results(replies)
        included == DOMAIN completeness_results
        scores == [index \in included |-> completeness_results[index].completeness_score]
        overall_completeness == FDivInt(FSumOver(scores, included), Cardinality(included))
    IN IF fault \/ included = {}   \* ZeroDivisionError: len(completeness_results) == 0
         THEN Raised
         ELSE [check_type |-> "completeness",
               overall_score |-> overall_completeness,
               meets_threshold |-> FGe(overall_completeness, quality_thresholds.completeness)]

\* documents an index can return for the completeness query: a document
\* that carries every field any index requires, and one without 'id'
AllFields == UNION {required_fields[i] : i \in DOMAIN required_fields}

CompletenessHits == SeqsUpTo({AllFields, AllFields \ {"id"}}, MaxHits)

CompletenessReplies ==
    [DOMAIN required_fields ->
        {ClientError} \cup {[hits |-> h, total |-> Len(h)] : h \in CompletenessHits}]

Pipeline_completeness_outcomes ==
    {Pipeline_completeness_report(r, f) : r \in CompletenessReplies, f \in BOOLEAN}

\* --- validate_document_accuracy / check_data_accuracy
\* texts the validator model can answer, as sequences of characters
TextACCURATE == <<"A", "C", "C", "U", "R", "A", "T", "E">>
TextINACCURATE == <<"I", "N">> \o TextACCURATE
TextLowerInaccurate == <<"i", "n", "a", "c", "c", "u", "r", "a", "t", "e">>
TextUNSURE == <<"U", "N", "S", "U", "R", "E">>

upper(text) ==
    LET capital == [a |-> "A", c |-> "C", e |-> "E", i |-> "I", n |-> "N",
                    r |-> "R", t |-> "T", u |-> "U"]
    IN [k \in 1..Len(text) |->
           IF text[k] \in DOMAIN capital THEN capital[text[k]] ELSE text[k]]

\* Python's  needle in text
contains(needle, text) ==
    \E k \in 1..(Len(text) - Len(needle) + 1) :
        SubSeq(text, k, k + Len(needle) - 1) = needle

\* the validator call raised (Bedrock unavailable, malformed response)
ValidatorError == <<"!">>

ValidatorAnswers == {TextACCURATE, TextINACCURATE, TextLowerInaccurate, TextUNSURE, ValidatorError}

\* answer = what bedrock.invoke_model returns for the document
validate_document_accuracy(answer) ==
    IF answer = ValidatorError
      THEN TRUE    \* Default to accurate if validation fails
      ELSE contains(TextACCURATE, upper(answer))

accuracy_indices == {"papers", "trials", "regulatory"}

\* documents[i] is represented by the validator's answer for it
Pipeline_accuracy_index(documents) ==
    LET total_docs == Len(documents)
        accurate_docs == Cardinality({i \in 1..total_docs :
                                         validate_document_accuracy(documents[i])})
        accuracy_score == IF total_docs > 0 THEN Frac(accurate_docs, total_docs)
                                            ELSE FInt(0)
    IN [total_documents |-> total_docs,
        accurate_documents |-> accurate_docs,
        accuracy_score |-> accuracy_score,
        meets_threshold |-> FGe(accuracy_score, quality_thresholds.accuracy)]

Pipeline_accuracy_results(replies) ==
    LET documents(index) == OpenSearchService_search(replies[index]).hits
        included == {index \in accuracy_indices : documents(index) # <<>>}
    IN [index \in included |-> Pipeline_accuracy_index(documents(index))]

Pipeline_accuracy_report(replies, fault) ==
    LET accuracy_results == Pipeline_accuracy_results(replies)
        included == DOMAIN accuracy_results
        scores == [index \in included |-> accuracy_results[index].accuracy_score]
        overall_accuracy == FDivInt(FSumOver(scores, included), Cardinality(included))
    IN IF fault \/ included = {}   \* ZeroDivisionError: len(accuracy_results) == 0
         THEN Raised
         ELSE [check_type |-> "accuracy",
               overall_score |-> overall_accuracy,
               meets_threshold |-> FGe(overall_accuracy, quality_thresholds.accuracy)]

AccuracyReplies ==
    [accuracy_indices -> {ClientError} \cup
        {[hits |-> h, total |-> Len(h)] : h \in SeqsUpTo(ValidatorAnswers, MaxHits)}]

Pipeline_accuracy_outcomes ==
    {Pipeline_accuracy_report(r, f) : r \in AccuracyReplies, f \in BOOLEAN}

\* --- check_data_timeliness
timeliness_indices == {"papers", "trials", "regulatory", "alerts"}

\* recent_query.get('query'): {'range': {'processedAt': {'gte': cutoff_time}}}
recent_filters == [range |-> "processedAt >= now - quality_thresholds.timeliness hours"]

\* what an index holds: all documents, and those processed after cutoff_time
StoreCounts ==
    {c \in [total : 0..MaxCounted, matching : 0..MaxCounted] : c.matching <= c.total}

Pipeline_timeliness_index(index, counts, recent_ok, total_ok) ==
    LET recent_count == OpenSearchService_count_documents(index, recent_filters, counts, recent_ok)
        total_count == OpenSearchService_count_documents(index, <<>>, counts, total_ok)
        timeliness_score == IF total_count > 0 THEN Frac(recent_count, total_count)
                                               ELSE FInt(0)
    IN [total_documents |-> total_count,
        recent_documents |-> recent_count,
        timeliness_score |-> timeliness_score,
        meets_threshold |-> FGe(timeliness_score, Frac(7, 10))]

\* store[index] = counts of the index; failed = the count calls whose client
\* call raises, as pairs <<index, "recent" | "total">>
Pipeline_timeliness_results(store, failed) ==
    [index \in timeliness_indices |->
        Pipeline_timeliness_index(index, store[index],
                                  <<index, "recent">> \notin failed,
                                  <<index, "total">> \notin failed)]

Pipeline_timeliness_report(store, failed, fault) ==
    LET timeliness_results == Pipeline_timeliness_results(store, failed)
        scores == [index \in timeliness_indices |-> timeliness_results[index].timeliness_score]
        overall_timeliness == FDivInt(FSumOver(scores, timeliness_indices),
                                      Cardinality(timeliness_indices))
    IN IF fault
         THEN Raised
         ELSE [check_type |-> "timeliness",
               overall_score |-> overall_timeliness,
               meets_threshold |-> FGe(overall_timeliness, Frac(7, 10))]

FailedCalls(calls) == {S \in SUBSET calls : Cardinality(S) <= MaxCountFailures}

Pipeline_timeliness_outcomes ==
    {Pipeline_timeliness_report(st, fl, f) :
        st \in [timeliness_indices -> StoreCounts],
        fl \in FailedCalls(timeliness_indices \X {"recent", "total"}),
        f \in BOOLEAN}

\* --- check_data_uniqueness
uniqueness_indices == {"papers", "trials", "regulatory"}

\* buckets of the terms aggregation with min_doc_count 2: the doc_count of
\* every key value that occurs at least twice, largest first
BucketListsUpTo(n) ==
    {b \in SeqsUpTo(2..n, n \div 2) :
        /\ SumSeq(b) <= n
        /\ \A k \in 1..(Len(b) - 1) : b[k] >= b[k + 1]}

BucketLists == BucketListsUpTo(MaxKeyed)

\* what an index of at most n documents holds: its documents and the
\* duplicate groups among them
UniquenessContentsUpTo(n) ==
    {c \in [total : 0..n, buckets : BucketListsUpTo(n)] : SumSeq(c.buckets) <= c.total}

UniquenessContents == UniquenessContentsUpTo(MaxKeyed)

aggregation_buckets(search_results) ==
    IF "aggregations" \in DOMAIN search_results THEN search_results.aggregations ELSE <<>>

RECURSIVE extra_occurrences(_)
extra_occurrences(buckets) ==
    IF buckets = <<>> THEN 0
    ELSE (Head(buckets) - 1) + extra_occurrences(Tail(buckets))

Pipeline_uniqueness_index(index, content, search_ok, count_ok) ==
    LET reply == IF search_ok
                   THEN [hits |-> <<>>, total |-> content.total,
                         aggregations |-> content.buckets]
                   ELSE ClientError
        duplicates == aggregation_buckets(OpenSearchService_search(reply))
        total_count == OpenSearchService_count_documents(
                           index, <<>>, [total |-> content.total, matching |-> content.total],
                           count_ok)
        duplicate_count == extra_occurrences(duplicates)
        uniqueness_score == IF total_count > 0
                              THEN Frac(total_count - duplicate_count, total_count)
                              ELSE FInt(1)
    IN [total_documents |-> total_count,
        duplicate_documents |-> duplicate_count,
        uniqueness_score |-> uniqueness_score,
        meets_threshold |-> FGe(uniqueness_score, quality_thresholds.uniqueness)]

Pipeline_uniqueness_results(store, search_failed, count_failed) ==
    [index \in uniqueness_indices |->
        Pipeline_uniqueness_index(index, store[index],
                                  index \notin search_failed,
                                  index \notin count_failed)]

Pipeline_uniqueness_report(store, search_failed, count_failed, fault) ==
    LET uniqueness_results == Pipeline_uniqueness_results(store, search_failed, count_failed)
        scores == [index \in uniqueness_indices |-> uniqueness_results[index].uniqueness_score]
        overall_uniqueness == FDivInt(FSumOver(scores, uniqueness_indices),
                                      Cardinality(uniqueness_indices))
    IN IF fault
         THEN Raised
         ELSE [check_type |-> "uniqueness",
               overall_score |-> overall_uniqueness,
               meets_threshold |-> FGe(overall_uniqueness, quality_thresholds.uniqueness)]

Pipeline_uniqueness_outcomes ==
    {Pipeline_uniqueness_report(st, sf, cf, f) :
        st \in [uniqueness_indices -> UniquenessContents],
        sf \in SUBSET uniqueness_indices,
        cf \in FailedCalls(uniqueness_indices),
        f \in BOOLEAN}

Dimensions == {"completeness", "accuracy", "timeliness", "consistency", "uniqueness"}

CheckTypes == Dimensions \cup {"comprehensive", "quick"}

\* events: with no check type, or with one
Events == {<<>>} \cup {[check_type |-> ct] : ct \in CheckTypes}

\* Python's  d.get(key, default)
dict_get(d, key, default) == IF key \in DOMAIN d THEN d[key] ELSE default

NoResponse == [statusCode |-> 0]

\* no check method has been audited
NoAudit == [checker |-> "none"]

Init ==
    /\ pc = "idle"
    /\ prog = "none"
    /\ check_type = "none"
    /\ pending = <<>>
    /\ results = <<>>
    /\ response = NoResponse
    /\ s3_objects = <<>>
    /\ os_indices = [quality_reports |-> <<>>, alerts |-> <<>>, data_quality_checks |-> <<>>]
    /\ sns_messages = <<>>
    /\ up \in [s3 : BOOLEAN, index : BOOLEAN, sns : BOOLEAN]
    /\ invoked = <<>>
    /\ alerts_generated = <<>>
    /\ collections = <<>>
    /\ audit = NoAudit
    /\ previous = NoAudit
    /\ now = 0

\* S3Service.store_metadata: a failing put_object is swallowed
S3Service_store_metadata(objects, key, metadata) ==
    IF up.s3 THEN Append(objects, [key |-> key, body |-> metadata]) ELSE objects

\* OpenSearchService.index_document: a failing client.index is swallowed
OpenSearchService_index_document(indices, index, doc_id, document) ==
    IF up.index
      THEN [indices EXCEPT ![index] = Append(@, [id |-> doc_id, body |-> document])]
      ELSE indices

\* --- DataQualityPipeline.store_quality_report
Pipeline_report_id(report) == <<"quality-report", report.check_type, now>>

Pipeline_store_quality_report(objects, indices, report) ==
    LET report_id == Pipeline_report_id(report)
    IN [s3 |-> S3Service_store_metadata(objects, <<"quality-reports", report_id>>, report),
        os |-> OpenSearchService_index_document(indices, "quality_reports", report_id, report)]

\* --- DataQualityPipeline.generate_quality_alert
Pipeline_alert_severity(report) ==
    IF FLt(report.overall_score, Frac(7, 10)) THEN "high" ELSE "medium"

Pipeline_alert_data(report) ==
    [id |-> <<"quality-alert", report.check_type, now>>,
     severity |-> Pipeline_alert_severity(report),
     source |-> "Data Quality Pipeline",
     qualityReport |-> report]

\* variant without the try/except around the body: a failing sns.publish
\* leaves the method and reaches the 'except Exception' of the check method
Pipeline_generate_quality_alert_uncaught(indices, messages, report) ==
    LET alert_data == Pipeline_alert_data(report)
    IN [os |-> OpenSearchService_index_document(indices, "alerts", alert_data.id, alert_data),
        sns |-> IF up.sns THEN Append(messages, alert_data) ELSE messages,
        escaped |-> ~up.sns]

\* the alert is indexed, then published; an exception of sns.publish is
\* caught inside the method (escaped = an exception leaves the method)
Pipeline_generate_quality_alert(indices, messages, report) ==
    LET alert_data == Pipeline_alert_data(report)
    IN [os |-> OpenSearchService_index_document(indices, "alerts", alert_data.id, alert_data),
        sns |-> IF up.sns THEN Append(messages, alert_data) ELSE messages,
        escaped |-> FALSE]

\* --- DataQualityPipeline.lambda_handler
Pipeline_checks == <<"completeness", "accuracy", "timeliness", "uniqueness">>

Pipeline_lambda_handler ==
    /\ pc = "idle"
    /\ \E ev \in Events :
        LET ct == dict_get(ev, "check_type", "comprehensive")
        IN /\ check_type' = ct
           /\ prog' = "pipeline"
           /\ IF ct \in {"completeness", "accuracy", "timeliness", "uniqueness"}
                THEN /\ pending' = <<ct>>
                     /\ pc' = "running"
                     /\ UNCHANGED response
              ELSE IF ct = "comprehensive"
                THEN /\ pending' = Pipeline_checks
                     /\ pc' = "running"
                     /\ UNCHANGED response
              \* 'consistency' calls self.check_data_consistency and any other
              \* value self.validate_specific_dataset: neither method exists,
              \* the AttributeError is caught by lambda_handler
                ELSE /\ pending' = <<>>
                     /\ pc' = "done"
                     /\ response' = ErrorResponse
    /\ UNCHANGED <<results, s3_objects, os_indices, sns_messages, up, invoked,
                   alerts_generated>>
    /\ UNCHANGED audit_vars

\* what a check method returns for its quality report (or Raised)
Pipeline_check_response(outcome, escaped) ==
    IF outcome = Raised \/ escaped
      THEN ErrorResponse
      ELSE [statusCode |-> 200,
            overall_score |-> outcome.overall_score,
            meets_threshold |-> outcome.meets_threshold]

\* the part the four check methods share: store the report, generate the
\* alert when the method does so (alerts) and the threshold is missed,
\* return; then either lambda_handler returns the result or the loop of
\* run_comprehensive_quality_check records it
Pipeline_finish_check(check, outcome, alerts) ==
    LET stored == IF outcome = Raised
                    THEN [s3 |-> s3_objects, os |-> os_indices]
                    ELSE Pipeline_store_quality_report(s3_objects, os_indices, outcome)
        alerting == outcome # Raised /\ alerts /\ ~outcome.meets_threshold
        alerted == IF alerting
                     THEN Pipeline_generate_quality_alert(stored.os, sns_messages, outcome)
                     ELSE [os |-> stored.os, sns |-> sns_messages, escaped |-> FALSE]
        result == Pipeline_check_response(outcome, alerted.escaped)
    IN /\ s3_objects' = stored.s3
       /\ os_indices' = alerted.os
       /\ sns_messages' = alerted.sns
       /\ alerts_generated' = IF alerting
                                THEN Append(alerts_generated, Pipeline_alert_data(outcome))
                                ELSE alerts_generated
       /\ invoked' = Append(invoked, check)
       /\ IF check_type = "comprehensive"
            THEN /\ results' = Append(results,
                        [check |-> check,
                         status |-> IF result.statusCode = 200 THEN "success" ELSE "error",
                         result |-> result])
                 /\ pending' = Tail(pending)
                 /\ UNCHANGED <<pc, response>>
            ELSE /\ response' = result
                 /\ pending' = <<>>
                 /\ pc' = "done"
                 /\ UNCHANGED results
       /\ UNCHANGED <<prog, check_type, up>>

Pipeline_next_check(check) ==
    /\ pc = "running"
    /\ prog = "pipeline"
    /\ pending # <<>>
    /\ Head(pending) = check

Pipeline_check_data_completeness ==
    /\ Pipeline_next_check("completeness")
    /\ \E outcome \in Pipeline_completeness_outcomes :
          Pipeline_finish_check("completeness", outcome, TRUE)
    /\ UNCHANGED audit_vars

Pipeline_check_data_accuracy ==
    /\ Pipeline_next_check("accuracy")
    /\ \E outcome \in Pipeline_accuracy_outcomes :
          Pipeline_finish_check("accuracy", outcome, TRUE)
    /\ UNCHANGED audit_vars

\* check_data_timeliness and check_data_uniqueness never call
\* generate_quality_alert
Pipeline_check_data_timeliness ==
    /\ Pipeline_next_check("timeliness")
    /\ \E outcome \in Pipeline_timeliness_outcomes :
          Pipeline_finish_check("timeliness", outcome, FALSE)
    /\ UNCHANGED audit_vars

Pipeline_check_data_uniqueness ==
    /\ Pipeline_next_check("uniqueness")
    /\ \E outcome \in Pipeline_uniqueness_outcomes :
          Pipeline_finish_check("uniqueness", outcome, FALSE)
    /\ UNCHANGED audit_vars

\* --- DataQualityPipeline.run_comprehensive_quality_check, after the loop
Pipeline_overall_score(individual_checks) ==
    LET successful_checks == SelectSeq(individual_checks, LAMBDA r : r.status = "success")
        scores == [k \in 1..Len(successful_checks) |->
                      successful_checks[k].result.overall_score]
    IN IF successful_checks # <<>>
         THEN FDivInt(FSumSeq(scores), Len(successful_checks))
         ELSE FInt(0)

Pipeline_run_comprehensive_quality_check ==
    /\ pc = "running"
    /\ prog = "pipeline"
    /\ check_type = "comprehensive"
    /\ pending = <<>>
    /\ LET overall_score == Pipeline_overall_score(results)
           comprehensive_report ==
               [check_type |-> "comprehensive",
                overall_quality_score |-> overall_score,
                individual_checks |-> results]
           stored == Pipeline_store_quality_report(s3_objects, os_indices,
                                                   comprehensive_report)
       IN /\ s3_objects' = stored.s3
          /\ os_indices' = stored.os
          /\ response' = [statusCode |-> 200,
                          overall_score |-> overall_score,
                          checks_completed |-> Len(results)]
    /\ pc' = "done"
    /\ UNCHANGED <<prog, check_type, pending, results, sns_messages, up,
                   invoked, alerts_generated>>
    /\ UNCHANGED audit_vars

\* --------------------------------------------------- DataQualityHandler
\* a check method of the handler returns a record with 'checkName' and
\* 'status'; the per-index 'results' and the 'issues' list are not modelled
Handler_failed(checkName) == [checkName |-> checkName, status |-> "failed", error |-> TRUE]

Handler_indices == {"brands", "trials", "alerts", "regulatory"}

\* hits.total.value of a search; counts.total / counts.matching are the
\* documents of the index / those the query selects
Handler_search_total(matching, ok) ==
    OpenSearchService_search(IF ok THEN [hits |-> <<>>, total |-> matching]
                                   ELSE ClientError).total

\* --- check_data_completeness.  store[index].matching = the documents with
\* neither 'id' nor 'createdAt'; failed = searches whose client call raises
Handler_completeness_index(counts, total_ok, missing_ok) ==
    LET total_docs == Handler_search_total(counts.total, total_ok)
        missing_docs == Handler_search_total(counts.matching, missing_ok)
        completeness_pct == IF total_docs > 0
                              THEN FMulInt(Frac(total_docs - missing_docs, total_docs), 100)
                              ELSE FInt(100)
    IN [totalDocuments |-> total_docs,
        missingFields |-> missing_docs,
        completenessPercentage |-> completeness_pct]

Handler_completeness_results(store, failed) ==
    [index \in Handler_indices |->
        Handler_completeness_index(store[index],
                                   <<index, "total">> \notin failed,
                                   <<index, "missing">> \notin failed)]

Handler_completeness_check(store, failed, fault) ==
    LET completeness_results == Handler_completeness_results(store, failed)
    IN IF fault
         THEN Handler_failed("Data Completeness")
         ELSE [checkName |-> "Data Completeness",
               status |-> IF \A index \in Handler_indices :
                                FGt(completeness_results[index].completenessPercentage,
                                    FInt(95))
                            THEN "passed" ELSE "warning"]

Handler_completeness_outcomes ==
    {Handler_completeness_check(st, fl, f) :
        st \in [Handler_indices -> StoreCounts],
        fl \in SUBSET (Handler_indices \X {"total", "missing"}),
        f \in BOOLEAN}

\* --- check_data_consistency.  a brand hit: whether it has a 'name', how
\* many trials its manufacturer sponsors, whether the trials search works
BrandHits == [name : BOOLEAN, trials : 0..1, trials_ok : BOOLEAN]

Handler_consistency_check(brands_reply, fault) ==
    LET brands == OpenSearchService_search(brands_reply).hits
        missing_trials == {k \in 1..Len(brands) :
                              Handler_search_total(brands[k].trials, brands[k].trials_ok) = 0}
        \* brand['name'] raises KeyError when the brand has no name
        key_error == \E k \in missing_trials : ~brands[k].name
        consistency_pct ==
            IF brands # <<>>
              THEN FMulInt(Frac(Len(brands) - Cardinality(missing_trials), Len(brands)), 100)
              ELSE FInt(100)
    IN IF fault \/ key_error
         THEN Handler_failed("Data Consistency")
         ELSE [checkName |-> "Data Consistency",
               status |-> IF FGt(consistency_pct, FInt(95)) THEN "passed" ELSE "warning",
               consistencyPercentage |-> consistency_pct]

Handler_consistency_outcomes ==
    {Handler_consistency_check(r, f) :
        r \in {ClientError} \cup
              {[hits |-> h, total |-> Len(h)] : h \in SeqsUpTo(BrandHits, MaxHits)},
        f \in BOOLEAN}

\* --- check_data_accuracy.  invalid[index] = documents of the index whose
\* score lies outside 0..100; failed = searches whose client call raises
Handler_accuracy_check(invalid, failed, fault) ==
    LET invalid_count == Handler_search_total(invalid["brands"], "brands" \notin failed)
        invalid_conf_count == Handler_search_total(invalid["alerts"], "alerts" \notin failed)
        issue_types == (IF invalid_count > 0 THEN 1 ELSE 0)
                       + (IF invalid_conf_count > 0 THEN 1 ELSE 0)
        accuracy_pct == 100 - (issue_types * 10)
    IN IF fault
         THEN Handler_failed("Data Accuracy")
         ELSE [checkName |-> "Data Accuracy",
               status |-> IF accuracy_pct > 95 THEN "passed" ELSE "warning",
               accuracyPercentage |-> FInt(Max(accuracy_pct, 0))]

Handler_accuracy_outcomes ==
    {Handler_accuracy_check(inv, fl, f) :
        inv \in [{"brands", "alerts"} -> 0..MaxCounted],
        fl \in SUBSET {"brands", "alerts"},
        f \in BOOLEAN}

\* --- check_data_timeliness.  store[index].matching = documents updated in
\* the last 24 hours
Handler_timeliness_index(counts, recent_ok, total_ok) ==
    LET recent_count == Handler_search_total(counts.matching, recent_ok)
        total_count == Handler_search_total(counts.total, total_ok)
        freshness_pct == IF total_count > 0
                           THEN FMulInt(Frac(recent_count, total_count), 100)
                           ELSE FInt(0)
    IN [recentDocuments |-> recent_count,
        totalDocuments |-> total_count,
        freshnessPercentage |-> freshness_pct]

Handler_timeliness_results(store, failed) ==
    [index \in Handler_indices |->
        Handler_timeliness_index(store[index],
                                 <<index, "recent">> \notin failed,
                                 <<index, "total">> \notin failed)]

Handler_timeliness_check(store, failed, fault) ==
    LET timeliness_results == Handler_timeliness_results(store, failed)
        pcts == [index \in Handler_indices |-> timeliness_results[index].freshnessPercentage]
        avg_freshness == FDivInt(FSumOver(pcts, Handler_indices), Cardinality(Handler_indices))
    IN IF fault
         THEN Handler_failed("Data Timeliness")
         ELSE [checkName |-> "Data Timeliness",
               status |-> IF FGt(avg_freshness, FInt(70)) THEN "passed" ELSE "warning",
               averageFreshness |-> avg_freshness]

Handler_timeliness_outcomes ==
    {Handler_timeliness_check(st, fl, f) :
        st \in [Handler_indices -> StoreCounts],
        fl \in SUBSET (Handler_indices \X {"recent", "total"}),
        f \in BOOLEAN}

\* --- check_data_uniqueness: counts the buckets, not the documents in them
Handler_uniqueness_indices == {"brands", "trials", "alerts"}

Handler_uniqueness_results(store, failed) ==
    LET duplicate_count(index) ==
            Len(aggregation_buckets(OpenSearchService_search(
                    IF index \notin failed
                      THEN [hits |-> <<>>, total |-> store[index].total,
                            aggregations |-> store[index].buckets]
                      ELSE ClientError)))
    IN [index \in Handler_uniqueness_indices |->
           [duplicateRecords |-> duplicate_count(index),
            status |-> IF duplicate_count(index) = 0 THEN "passed" ELSE "warning"]]

Handler_uniqueness_check(store, failed, fault) ==
    LET uniqueness_results == Handler_uniqueness_results(store, failed)
        total_duplicates ==
            SumOver([index \in Handler_uniqueness_indices |->
                        uniqueness_results[index].duplicateRecords],
                    Handler_uniqueness_indices)
    IN IF fault
         THEN Handler_failed("Data Uniqueness")
         ELSE [checkName |-> "Data Uniqueness",
               status |-> IF total_duplicates = 0 THEN "passed" ELSE "warning",
               totalDuplicates |-> total_duplicates]

Handler_uniqueness_outcomes ==
    {Handler_uniqueness_check(st, fl, f) :
        st \in [Handler_uniqueness_indices -> UniquenessContents],
        fl \in SUBSET Handler_uniqueness_indices,
        f \in BOOLEAN}

\* --- DataQualityHandler.lambda_handler
Handler_checks == <<"completeness", "consistency", "accuracy", "timeliness", "uniqueness">>

Handler_quick_checks == <<"completeness", "consistency">>

Handler_error_response == [statusCode |-> 500, success |-> FALSE]

Handler_lambda_handler ==
    /\ pc = "idle"
    /\ \E ev \in Events :
        LET ct == dict_get(ev, "check_type", "comprehensive")
        IN /\ check_type' = ct
           /\ prog' = "handler"
           /\ IF ct = "comprehensive"
                THEN /\ pending' = Handler_checks
                     /\ pc' = "running"
                     /\ UNCHANGED response
              ELSE IF ct = "quick"
                THEN /\ pending' = Handler_quick_checks
                     /\ pc' = "running"
                     /\ UNCHANGED response
              \* 'Unknown check type'
                ELSE /\ pending' = <<>>
                     /\ pc' = "done"
                     /\ response' = Handler_error_response
    /\ UNCHANGED <<results, s3_objects, os_indices, sns_messages, up, invoked,
                   alerts_generated>>
    /\ UNCHANGED audit_vars

Handler_next_check(check) ==
    /\ pc = "running"
    /\ prog = "handler"
    /\ pending # <<>>
    /\ Head(pending) = check

\* variant in which the result of a check method that failed is dropped
Handler_record_check_unrecorded(check, outcome) ==
    /\ results' = IF outcome.status = "failed" THEN results ELSE Append(results, outcome)
    /\ pending' = Tail(pending)
    /\ invoked' = Append(invoked, check)
    /\ UNCHANGED <<pc, prog, check_type, response, s3_objects, os_indices,
                   sns_messages, up, alerts_generated>>
    /\ UNCHANGED audit_vars

\* the result of a check method is appended to check_results['checks']
Handler_record_check(check, outcome) ==
    /\ results' = Append(results, outcome)
    /\ pending' = Tail(pending)
    /\ invoked' = Append(invoked, check)
    /\ UNCHANGED <<pc, prog, check_type, response, s3_objects, os_indices,
                   sns_messages, up, alerts_generated>>
    /\ UNCHANGED audit_vars

Handler_check_data_completeness ==
    /\ Handler_next_check("completeness")
    /\ \E outcome \in Handler_completeness_outcomes :
          Handler_record_check("completeness", outcome)

Handler_check_data_consistency ==
    /\ Handler_next_check("consistency")
    /\ \E outcome \in Handler_consistency_outcomes :
          Handler_record_check("consistency", outcome)

Handler_check_data_accuracy ==
    /\ Handler_next_check("accuracy")
    /\ \E outcome \in Handler_accuracy_outcomes :
          Handler_record_check("accuracy", outcome)

Handler_check_data_timeliness ==
    /\ Handler_next_check("timeliness")
    /\ \E outcome \in Handler_timeliness_outcomes :
          Handler_record_check("timeliness", outcome)

Handler_check_data_uniqueness ==
    /\ Handler_next_check("uniqueness")
    /\ \E outcome \in Handler_uniqueness_outcomes :
          Handler_record_check("uniqueness", outcome)

\* --- DataQualityHandler._calculate_overall_score
Handler_check_score(check) ==
    IF check.status = "passed" THEN FInt(100)
    ELSE IF check.status = "warning"
      THEN IF "completenessPercentage" \in DOMAIN check THEN check.completenessPercentage
           ELSE IF "consistencyPercentage" \in DOMAIN check THEN check.consistencyPercentage
           ELSE IF "accuracyPercentage" \in DOMAIN check THEN check.accuracyPercentage
           ELSE IF "averageFreshness" \in DOMAIN check THEN check.averageFreshness
           ELSE FInt(75)
    ELSE FInt(0)

Handler_calculate_overall_score(checks) ==
    LET scores == [k \in 1..Len(checks) |-> Handler_check_score(checks[k])]
    IN IF scores # <<>> THEN FDivInt(FSumSeq(scores), Len(scores)) ELSE FInt(0)

\* --- DataQualityHandler._generate_quality_alert
Handler_alert_data(check_results) ==
    [id |-> <<"quality-alert">>,
     severity |-> "high",
     source |-> "Data Quality Check",
     overallQualityScore |-> check_results.overallQualityScore,
     details |-> check_results.checks]

\* an exception of sns.publish is caught inside the method
Handler_generate_quality_alert(messages, check_results) ==
    [sns |-> IF up.sns THEN Append(messages, Handler_alert_data(check_results)) ELSE messages,
     escaped |-> FALSE]

\* --- DataQualityHandler.run_comprehensive_checks, after the five checks
Handler_run_comprehensive_checks ==
    /\ pc = "running"
    /\ prog = "handler"
    /\ check_type = "comprehensive"
    /\ pending = <<>>
    /\ LET overall_score == Handler_calculate_overall_score(results)
           check_results == [checks |-> results, overallQualityScore |-> overall_score]
           check_id == <<"quality-check">>
           alerting == FLt(overall_score, FInt(70))
           alerted == IF alerting
                        THEN Handler_generate_quality_alert(sns_messages, check_results)
                        ELSE [sns |-> sns_messages, escaped |-> FALSE]
       IN /\ os_indices' = OpenSearchService_index_document(
                               os_indices, "data_quality_checks", check_id, check_results)
          /\ sns_messages' = alerted.sns
          /\ alerts_generated' = IF alerting
                                   THEN Append(alerts_generated, Handler_alert_data(check_results))
                                   ELSE alerts_generated
          /\ response' = IF alerted.escaped
                           THEN Handler_error_response
                           ELSE [statusCode |-> 200,
                                 checkId |-> check_id,
                                 overallScore |-> overall_score]
    /\ pc' = "done"
    /\ UNCHANGED <<prog, check_type, pending, results, s3_objects, up, invoked>>
    /\ UNCHANGED audit_vars

\* --- DataQualityHandler.run_quick_checks, after the two checks
Handler_run_quick_checks ==
    /\ pc = "running"
    /\ prog = "handler"
    /\ check_type = "quick"
    /\ pending = <<>>
    /\ response' = [statusCode |-> 200,
                    overallScore |-> Handler_calculate_overall_score(results)]
    /\ pc' = "done"
    /\ UNCHANGED <<prog, check_type, pending, results, s3_objects, os_indices,
                   sns_messages, up, invoked, alerts_generated>>
    /\ UNCHANGED audit_vars

Next ==
    \/ Pipeline_lambda_handler
    \/ Pipeline_check_data_completeness
    \/ Pipeline_check_data_accuracy
    \/ Pipeline_check_data_timeliness
    \/ Pipeline_check_data_uniqueness
    \/ Pipeline_run_comprehensive_quality_check
    \/ Handler_lambda_handler
    \/ Handler_check_data_completeness
    \/ Handler_check_data_consistency
    \/ Handler_check_data_accuracy
    \/ Handler_check_data_timeliness
    \/ Handler_check_data_uniqueness
    \/ Handler_run_comprehensive_checks
    \/ Handler_run_quick_checks

Spec == Init /\ [][Next]_vars

\* ------------------------------------------- check methods, one at a time
\* The actions below run one check method on a document store whose
\* contents are an input, and keep the contents, the client calls that
\* raised and the per-index results next to the report.  No exception other
\* than those of the client calls and of the validator is raised.
AllUp == [s3 |-> TRUE, index |-> TRUE, sns |-> TRUE]

AuditInit == Init /\ up = AllUp

FailedClientCalls(calls) == {S \in SUBSET calls : Cardinality(S) <= MaxFailedCalls}

\* the contents the check method finds: chosen when the store is first
\* read, and the contents the store has by then in a later invocation
Held(contents) == IF audit.checker = "none" THEN contents ELSE {collections}

\* reply of the client to a search that returns the documents held
search_reply(documents, ok) ==
    IF ok THEN [hits |-> documents, total |-> Len(documents)] ELSE ClientError

\* truthy fields of the alert_data document generate_quality_alert indexes
Pipeline_alert_fields ==
    {"id", "title", "severity", "source", "brandImpacted", "description",
     "whyItMatters", "createdAt", "confidenceScore", "qualityReport"}

\* the 'alerts' index after the check method returned: generate_quality_alert
\* has indexed alert_data when the report misses its threshold
Pipeline_alerts_after(documents, report) ==
    IF report # Raised /\ ~report.meets_threshold /\ up.index
      THEN Append(documents, Pipeline_alert_fields)
      ELSE documents

Audit_check_data_completeness ==
    /\ Pipeline_next_check("completeness")
    /\ check_type = "completeness"
    /\ \E held \in Held([DOMAIN required_fields -> CompletenessHits]),
          failed \in FailedClientCalls(DOMAIN required_fields) :
          LET replies == [index \in DOMAIN required_fields |->
                             search_reply(held[index], index \notin failed)]
              report == Pipeline_completeness_report(replies, FALSE)
          IN /\ Pipeline_finish_check("completeness", report, TRUE)
             /\ collections' = [held EXCEPT !.alerts = Pipeline_alerts_after(@, report)]
             /\ audit' = [checker |-> "Pipeline.check_data_completeness",
                          held |-> held,
                          failed |-> failed,
                          details |-> Pipeline_completeness_results(replies),
                          report |-> report]
    /\ UNCHANGED <<previous, now>>

\* collections[index] = number of documents of the last 7 days the index
\* holds; answers[index][i] = what the validator answers for the i-th hit
Audit_check_data_accuracy ==
    /\ Pipeline_next_check("accuracy")
    /\ check_type = "accuracy"
    /\ \E held \in Held([accuracy_indices -> 0..MaxHits]),
          failed \in FailedClientCalls(accuracy_indices) :
       \E answers \in [accuracy_indices -> SeqsUpTo(ValidatorAnswers, MaxHits)] :
          /\ \A index \in accuracy_indices :
                Len(answers[index]) = IF index \in failed THEN 0 ELSE held[index]
          /\ LET replies == [index \in accuracy_indices |->
                                search_reply(answers[index], index \notin failed)]
                 report == Pipeline_accuracy_report(replies, FALSE)
             IN /\ Pipeline_finish_check("accuracy", report, TRUE)
                /\ collections' = held
                /\ audit' = [checker |-> "Pipeline.check_data_accuracy",
                             held |-> held,
                             failed |-> failed,
                             answers |-> answers,
                             details |-> Pipeline_accuracy_results(replies),
                             report |-> report]
    /\ UNCHANGED <<previous, now>>

Audit_check_data_timeliness ==
    /\ Pipeline_next_check("timeliness")
    /\ check_type = "timeliness"
    /\ \E held \in Held([timeliness_indices -> StoreCounts]),
          failed \in FailedClientCalls(timeliness_indices \X {"recent", "total"}) :
          LET report == Pipeline_timeliness_report(held, failed, FALSE)
          IN /\ Pipeline_finish_check("timeliness", report, FALSE)
             /\ collections' = held
             /\ audit' = [checker |-> "Pipeline.check_data_timeliness",
                          held |-> held,
                          failed |-> failed,
                          details |-> Pipeline_timeliness_results(held, failed),
                          report |-> report]
    /\ UNCHANGED <<previous, now>>

Audit_check_data_uniqueness ==
    /\ Pipeline_next_check("uniqueness")
    /\ check_type = "uniqueness"
    /\ \E held \in Held([uniqueness_indices -> UniquenessContentsUpTo(MaxAuditedKeyed)]),
          failed \in FailedClientCalls(uniqueness_indices \X {"search", "count"}) :
          LET search_failed == {index \in uniqueness_indices : <<index, "search">> \in failed}
              count_failed == {index \in uniqueness_indices : <<index, "count">> \in failed}
              report == Pipeline_uniqueness_report(held, search_failed, count_failed, FALSE)
          IN /\ Pipeline_finish_check("uniqueness", report, FALSE)
             /\ collections' = held
             /\ audit' = [checker |-> "Pipeline.check_data_uniqueness",
                          held |-> held,
                          failed |-> failed,
                          details |-> Pipeline_uniqueness_results(held, search_failed,
                                                                  count_failed),
                          report |-> report]
    /\ UNCHANGED <<previous, now>>

\* --- the check methods of DataQualityHandler: they only read the store
\* and return their result, which the audit keeps
Audit_handler_result(checker, held, failed, details, result) ==
    /\ pc' = "done"
    /\ prog' = "handler"
    /\ check_type' = checker
    /\ collections' = held
    /\ audit' = [checker |-> checker,
                 held |-> held,
                 failed |-> failed,
                 details |-> details,
                 report |-> result]
    /\ UNCHANGED <<pending, results, response, s3_objects, os_indices,
                   sns_messages, up, invoked, alerts_generated, previous, now>>

\* documents as the handler's completeness queries see them: with both
\* 'id' and 'createdAt', without 'id', without either
HandlerDocuments == {AllFields, AllFields \ {"id"}, AllFields \ {"id", "createdAt"}}

\* the fields missing_fields_query names
Handler_required_fields == {"id", "createdAt"}

\* missing_fields_query: bool.must_not of the two 'exists' clauses selects
\* the documents for which no clause matches
Handler_missing_fields_query(document) ==
    ~("id" \in document) /\ ~("createdAt" \in document)

Handler_completeness_counts(documents) ==
    [total |-> Len(documents),
     matching |-> Cardinality({i \in 1..Len(documents) :
                                  Handler_missing_fields_query(documents[i])})]

Audit_handler_completeness ==
    /\ pc = "idle"
    /\ \E held \in [Handler_indices -> SeqsUpTo(HandlerDocuments, MaxCounted)],
          failed \in FailedClientCalls(Handler_indices \X {"total", "missing"}) :
          LET counts == [index \in Handler_indices |-> Handler_completeness_counts(held[index])]
          IN Audit_handler_result("Handler.check_data_completeness", held, failed,
                                  Handler_completeness_results(counts, failed),
                                  Handler_completeness_check(counts, failed, FALSE))

\* held = the brands; brands_ok = the brands search works; the calls that
\* raised are that search, or else the trials searches of the brands whose
\* trials_ok is false
Audit_handler_consistency ==
    /\ pc = "idle"
    /\ \E held \in SeqsUpTo(BrandHits, MaxHits), brands_ok \in BOOLEAN :
          LET failed == IF brands_ok
                          THEN {<<"trials", k>> : k \in {i \in 1..Len(held) : ~held[i].trials_ok}}
                          ELSE {<<"brands", 0>>}
          IN Audit_handler_result("Handler.check_data_consistency", held, failed, <<>>,
                                  Handler_consistency_check(search_reply(held, brands_ok),
                                                            FALSE))

Audit_handler_accuracy ==
    /\ pc = "idle"
    /\ \E held \in [{"brands", "alerts"} -> 0..MaxCounted],
          failed \in FailedClientCalls({"brands", "alerts"}) :
          Audit_handler_result("Handler.check_data_accuracy", held, failed, <<>>,
                               Handler_accuracy_check(held, failed, FALSE))

Audit_handler_timeliness ==
    /\ pc = "idle"
    /\ \E held \in [Handler_indices -> StoreCounts],
          failed \in FailedClientCalls(Handler_indices \X {"recent", "total"}) :
          Audit_handler_result("Handler.check_data_timeliness", held, failed,
                               Handler_timeliness_results(held, failed),
                               Handler_timeliness_check(held, failed, FALSE))

Audit_handler_uniqueness ==
    /\ pc = "idle"
    /\ \E held \in [Handler_uniqueness_indices -> UniquenessContentsUpTo(MaxAuditedKeyed)],
          failed \in FailedClientCalls(Handler_uniqueness_indices) :
          Audit_handler_result("Handler.check_data_uniqueness", held, failed,
                               Handler_uniqueness_results(held, failed),
                               Handler_uniqueness_check(held, failed, FALSE))

AuditNext ==
    \/ Pipeline_lambda_handler
    \/ Audit_check_data_completeness
    \/ Audit_check_data_accuracy
    \/ Audit_check_data_timeliness
    \/ Audit_check_data_uniqueness
    \/ Audit_handler_completeness
    \/ Audit_handler_consistency
    \/ Audit_handler_accuracy
    \/ Audit_handler_timeliness
    \/ Audit_handler_uniqueness

AuditSpec == AuditInit /\ [][AuditNext]_vars

\* --- the same event a second time: lambda_handler calls the same check
\* method again, on the store as the first invocation left it, within the
\* same second of the clock or up to MaxElapsed seconds later
Audit_second_invocation ==
    /\ pc = "done"
    /\ prog = "pipeline"
    /\ audit.checker # "none"
    /\ previous.checker = "none"
    /\ previous' = audit
    /\ now' \in now..(now + MaxElapsed)
    /\ pc' = "running"
    /\ pending' = <<check_type>>
    /\ response' = NoResponse
    /\ UNCHANGED <<prog, check_type, results, s3_objects, os_indices, sns_messages,
                   up, invoked, alerts_generated, collections, audit>>

RerunNext == AuditNext \/ Audit_second_invocation

RerunSpec == AuditInit /\ [][RerunNext]_vars

\* ---------------------------------------------------- runs that must finish
\* The invocations above again, on a document store that answers every search
\* and count and whose indices all hold the same documents; an exception inside a
\* check method (fault) remains possible.  An invocation is one thread of
\* control: a step it can take is taken, which is the fairness condition.
UniformStore(indices, contents) == {[index \in indices |-> c] : c \in contents}

Uniform_completeness_outcomes ==
    {Pipeline_completeness_report(
         [index \in DOMAIN required_fields |-> search_reply(held[index], TRUE)], f) :
       held \in UniformStore(DOMAIN required_fields, CompletenessHits), f \in BOOLEAN}

Uniform_accuracy_outcomes ==
    {Pipeline_accuracy_report(
         [index \in accuracy_indices |-> search_reply(held[index], TRUE)], f) :
       held \in UniformStore(accuracy_indices, SeqsUpTo(ValidatorAnswers, MaxHits)),
       f \in BOOLEAN}

Uniform_timeliness_outcomes ==
    {Pipeline_timeliness_report(held, {}, f) :
       held \in UniformStore(timeliness_indices, StoreCounts), f \in BOOLEAN}

Uniform_uniqueness_outcomes ==
    {Pipeline_uniqueness_report(held, {}, {}, f) :
       held \in UniformStore(uniqueness_indices, UniquenessContents), f \in BOOLEAN}

Uniform_handler_completeness_outcomes ==
    {Handler_completeness_check(
         [index \in Handler_indices |-> Handler_completeness_counts(held[index])], {}, f) :
       held \in UniformStore(Handler_indices, SeqsUpTo(HandlerDocuments, MaxCounted)),
       f \in BOOLEAN}

Uniform_handler_consistency_outcomes ==
    {Handler_consistency_check(search_reply(brands, TRUE), f) :
       brands \in {b \in SeqsUpTo(BrandHits, MaxHits) :
                      \A k \in 1..Len(b) : b[k].trials_ok},
       f \in BOOLEAN}

Uniform_handler_accuracy_outcomes ==
    {Handler_accuracy_check(held, {}, f) :
       held \in UniformStore({"brands", "alerts"}, 0..MaxCounted), f \in BOOLEAN}

Uniform_handler_timeliness_outcomes ==
    {Handler_timeliness_check(held, {}, f) :
       held \in UniformStore(Handler_indices, StoreCounts), f \in BOOLEAN}

Uniform_handler_uniqueness_outcomes ==
    {Handler_uniqueness_check(held, {}, f) :
       held \in UniformStore(Handler_uniqueness_indices, UniquenessContents),
       f \in BOOLEAN}

Uniform_check_data_completeness ==
    /\ Pipeline_next_check("completeness")
    /\ \E outcome \in Uniform_completeness_outcomes :
          Pipeline_finish_check("completeness", outcome, TRUE)
    /\ UNCHANGED audit_vars

Uniform_check_data_accuracy ==
    /\ Pipeline_next_check("accuracy")
    /\ \E outcome \in Uniform_accuracy_outcomes :
          Pipeline_finish_check("accuracy", outcome, TRUE)
    /\ UNCHANGED audit_vars

Uniform_check_data_timeliness ==
    /\ Pipeline_next_check("timeliness")
    /\ \E outcome \in Uniform_timeliness_outcomes :
          Pipeline_finish_check("timeliness", outcome, FALSE)
    /\ UNCHANGED audit_vars

Uniform_check_data_uniqueness ==
    /\ Pipeline_next_check("uniqueness")
    /\ \E outcome \in Uniform_uniqueness_outcomes :
          Pipeline_finish_check("uniqueness", outcome, FALSE)
    /\ UNCHANGED audit_vars

Uniform_handler_completeness ==
    /\ Handler_next_check("completeness")
    /\ \E outcome \in Uniform_handler_completeness_outcomes :
          Handler_record_check("completeness", outcome)

Uniform_handler_consistency ==
    /\ Handler_next_check("consistency")
    /\ \E outcome \in Uniform_handler_consistency_outcomes :
          Handler_record_check("consistency", outcome)

Uniform_handler_accuracy ==
    /\ Handler_next_check("accuracy")
    /\ \E outcome \in Uniform_handler_accuracy_outcomes :
          Handler_record_check("accuracy", outcome)

Uniform_handler_timeliness ==
    /\ Handler_next_check("timeliness")
    /\ \E outcome \in Uniform_handler_timeliness_outcomes :
          Handler_record_check("timeliness", outcome)

Uniform_handler_uniqueness ==
    /\ Handler_next_check("uniqueness")
    /\ \E outcome \in Uniform_handler_uniqueness_outcomes :
          Handler_record_check("uniqueness", outcome)

FairNext ==
    \/ Pipeline_lambda_handler
    \/ Uniform_check_data_completeness
    \/ Uniform_check_data_accuracy
    \/ Uniform_check_data_timeliness
    \/ Uniform_check_data_uniqueness
    \/ Pipeline_run_comprehensive_quality_check
    \/ Handler_lambda_handler
    \/ Uniform_handler_completeness
    \/ Uniform_handler_consistency
    \/ Uniform_handler_accuracy
    \/ Uniform_handler_timeliness
    \/ Uniform_handler_uniqueness
    \/ Handler_run_comprehensive_checks
    \/ Handler_run_quick_checks

FairSpec == Init /\ [][FairNext]_vars /\ WF_vars(FairNext)

\* ------------------------------------------- a comprehensive run, audited
\* run_comprehensive_quality_check on a document store whose contents are
\* visible: collections[index] = the documents of the index, each document
\* being the set of its truthy fields.  The store answers every search and
\* count.  check_data_accuracy and check_data_uniqueness read 'papers',
\* 'trials' and 'regulatory' only, which no check method writes: what they
\* find is an input as before.

\* the documents the index held when the run started: all but the alert_data
\* documents the run has indexed since
RunStart(index) ==
    SubSeq(collections[index], 1,
           Len(collections[index]) - (IF index = "alerts" THEN Len(os_indices.alerts) ELSE 0))

Run_check_data_completeness ==
    /\ Pipeline_next_check("completeness")
    /\ check_type = "comprehensive"
    /\ \E held \in [DOMAIN required_fields -> CompletenessHits] :
          LET replies == [index \in DOMAIN required_fields |->
                             search_reply(held[index], TRUE)]
              report == Pipeline_completeness_report(replies, FALSE)
          IN /\ Pipeline_finish_check("completeness", report, TRUE)
             /\ collections' = [held EXCEPT !.alerts = Pipeline_alerts_after(@, report)]
             /\ audit' = [checker |-> "Pipeline.check_data_completeness",
                          held |-> held,
                          failed |-> {},
                          details |-> Pipeline_completeness_results(replies),
                          report |-> report]
    /\ UNCHANGED <<previous, now>>

Run_check_data_accuracy ==
    /\ Pipeline_next_check("accuracy")
    /\ check_type = "comprehensive"
    /\ \E outcome \in Uniform_accuracy_outcomes :
          /\ Pipeline_finish_check("accuracy", outcome, TRUE)
          /\ collections' = [collections EXCEPT
                                !.alerts = Pipeline_alerts_after(@, outcome)]
    /\ UNCHANGED <<audit, previous, now>>

\* recent[index] = how many of the documents the index held when the run
\* started were processed after cutoff_time (alert_data has no 'processedAt')
Run_check_data_timeliness ==
    /\ Pipeline_next_check("timeliness")
    /\ check_type = "comprehensive"
    /\ \E recent \in [timeliness_indices -> 0..MaxHits] :
          /\ \A index \in timeliness_indices : recent[index] <= Len(RunStart(index))
          /\ LET held == [index \in timeliness_indices |->
                             [total |-> Len(collections[index]),
                              matching |-> recent[index]]]
                 report == Pipeline_timeliness_report(held, {}, FALSE)
             IN /\ Pipeline_finish_check("timeliness", report, FALSE)
                /\ audit' = [checker |-> "Pipeline.check_data_timeliness",
                             held |-> held,
                             failed |-> {},
                             details |-> Pipeline_timeliness_results(held, {}),
                             report |-> report]
    /\ UNCHANGED <<collections, previous, now>>

Run_check_data_uniqueness ==
    /\ Pipeline_next_check("uniqueness")
    /\ check_type = "comprehensive"
    /\ \E outcome \in Uniform_uniqueness_outcomes :
          Pipeline_finish_check("uniqueness", outcome, FALSE)
    /\ UNCHANGED audit_vars

RunNext ==
    \/ Pipeline_lambda_handler
    \/ Run_check_data_completeness
    \/ Run_check_data_accuracy
    \/ Run_check_data_timeliness
    \/ Run_check_data_uniqueness
    \/ Pipeline_run_comprehensive_quality_check

RunSpec == AuditInit /\ [][RunNext]_vars

\* ----------------------------------------------------------------- claims
\* reports the run has persisted, in the metadata bucket or in an index
PersistedReports ==
    {s3_objects[k].body : k \in 1..Len(s3_objects)}
    \cup {os_indices.quality_reports[k].body : k \in 1..Len(os_indices.quality_reports)}
    \cup {os_indices.data_quality_checks[k].body :
             k \in 1..Len(os_indices.data_quality_checks)}

\* the invocation returned a score to its caller
RunScored == pc = "done" /\ response.statusCode = 200

RunScore ==
    IF "overall_score" \in DOMAIN response THEN response.overall_score
                                           ELSE response.overallScore

\* the run called several checkers and combined their results
CombinedRun == check_type \in {"comprehensive", "quick"}

CheckFailed(r) == r.status \in {"error", "failed"}

\* scores of the entries of results whose checker succeeded, in order
SucceededScores ==
    LET ok == SelectSeq(results, LAMBDA r : ~CheckFailed(r))
    IN [k \in 1..Len(ok) |->
           IF prog = "pipeline" THEN ok[k].result.overall_score
                                ELSE Handler_check_score(ok[k])]

Mean(scores) == FDivInt(FSumSeq(scores), Len(scores))

\* C1: the overall score of a comprehensive run is the unweighted mean of
\* the scores of exactly the checkers that succeeded; a failed checker is
\* left out of the sum and of the count
C1_OverallIsMeanOfSucceeded ==
    (RunScored /\ check_type = "comprehensive" /\ SucceededScores # <<>>)
        => RunScore = Mean(SucceededScores)

\* every checker the run called has failed
EveryCheckerFailed ==
    /\ pc = "done"
    /\ check_type \in Dimensions \cup {"comprehensive"}
    /\ invoked # <<>>
    /\ IF CombinedRun
         THEN \A k \in 1..Len(results) : CheckFailed(results[k])
         ELSE response.statusCode = 500

\* C2: when every checker selected for a run fails, the caller receives an
\* error instead of a score, no report is persisted and no alert is produced
C2_AllFailedIsAnError ==
    EveryCheckerFailed
        => /\ response.statusCode # 200
           /\ PersistedReports = {}
           /\ alerts_generated = <<>>

SelectedChecks == IF prog = "pipeline" THEN Pipeline_checks ELSE Handler_checks

\* C3: in a comprehensive run in which a checker fails, every selected
\* checker is still called and has a result before aggregation, the failed
\* checker is recorded as failed in the persisted report, and the run returns
\* the score computed from the checkers that succeeded
C3_FailureIsIsolated ==
    (/\ pc = "done"
     /\ check_type = "comprehensive"
     /\ \E k \in 1..Len(results) : CheckFailed(results[k])
     /\ \E k \in 1..Len(results) : ~CheckFailed(results[k]))
        => /\ invoked = SelectedChecks
           /\ Len(results) = Len(SelectedChecks)
           /\ \A body \in PersistedReports :
                 /\ "individual_checks" \in DOMAIN body => body.individual_checks = results
                 /\ "checks" \in DOMAIN body => body.checks = results
           /\ response.statusCode = 200
           /\ RunScore = Mean(SucceededScores)

\* C4: a comprehensive run calls all five checkers and its report holds one
\* result for each of the five dimensions
C4_ComprehensiveRunsAllFive ==
    (pc = "done" /\ check_type = "comprehensive")
        => /\ {invoked[k] : k \in 1..Len(invoked)} = Dimensions
           /\ Len(invoked) = Cardinality(Dimensions)
           /\ Len(results) = Cardinality(Dimensions)

\* C5: for a named check type the trigger calls exactly the checker of that
\* dimension and returns that checker's score
C5_NamedRunsOnlyThatChecker ==
    (pc = "done" /\ check_type \in Dimensions)
        => /\ invoked = <<check_type>>
           /\ response.statusCode = 200
                 => \A body \in PersistedReports : body.overall_score = RunScore

\* the Scorer's verdict for a score, given the smallest threshold among the
\* dimensions that were evaluated
SpecVerdict(score, floor) ==
    IF FLt(score, Frac(70, 100)) THEN "fail"
    ELSE IF FLt(score, floor) THEN "warn"
    ELSE "pass"

\* the threshold the pipeline applies to the score of a dimension
ThresholdOf(dimension) ==
    IF dimension = "timeliness" THEN Frac(7, 10) ELSE quality_thresholds[dimension]

FMin(S) == CHOOSE x \in S : \A y \in S : ~FLt(y, x)

\* smallest threshold among the dimensions named in the sequence checks
FloorOf(checks) ==
    IF checks = <<>> THEN FInt(1)
    ELSE FMin({ThresholdOf(checks[k]) : k \in 1..Len(checks)})

\* dimensions of the pipeline run whose checker produced a score
EvaluatedDimensions ==
    IF check_type = "comprehensive"
      THEN LET ok == SelectSeq(results, LAMBDA r : ~CheckFailed(r))
           IN [k \in 1..Len(ok) |-> ok[k].check]
      ELSE <<check_type>>

\* an alert was generated for the report of the run itself
AlertForRun ==
    \E k \in 1..Len(alerts_generated) :
        \/ prog = "handler"
        \/ alerts_generated[k].qualityReport.check_type = check_type

\* C6: an alert is raised for a run exactly when the verdict of the run is
\* not pass, for every check type
C6_AlertIffNotPass ==
    /\ (RunScored /\ prog = "pipeline")
          => (AlertForRun <=> SpecVerdict(RunScore, FloorOf(EvaluatedDimensions)) # "pass")
    /\ (RunScored /\ prog = "handler" /\ check_type = "comprehensive")
          => (FLt(RunScore, FInt(70)) => AlertForRun)

\* the overall score an alert was raised for, on the scale 0..1
AlertScore(alert) ==
    IF "qualityReport" \in DOMAIN alert
      THEN alert.qualityReport.overall_score
      ELSE FDivInt(alert.overallQualityScore, 100)

\* C7: the severity of an alert is critical when the overall score is below
\* 0.5, otherwise high when the verdict is fail, otherwise medium
C7_SeverityRule ==
    \A k \in 1..Len(alerts_generated) :
        LET alert == alerts_generated[k]
        IN alert.severity =
              IF FLt(AlertScore(alert), Frac(5, 10)) THEN "critical"
              ELSE IF FLt(AlertScore(alert), Frac(70, 100)) THEN "high"
              ELSE "medium"

\* the verdict a persisted report carries: meets_threshold is pass, a missed
\* threshold is fail or warn as generate_quality_alert grades it
ReportVerdict(body) ==
    IF "meets_threshold" \in DOMAIN body
      THEN IF body.meets_threshold THEN "pass"
           ELSE IF Pipeline_alert_severity(body) = "high" THEN "fail"
           ELSE "warn"
      ELSE "none"

ReportScore(body) ==
    IF "overall_score" \in DOMAIN body THEN body.overall_score
    ELSE IF "overall_quality_score" \in DOMAIN body THEN body.overall_quality_score
    ELSE FDivInt(body.overallQualityScore, 100)

ReportFloor(body) ==
    IF "check_type" \in DOMAIN body /\ body.check_type \in Dimensions
      THEN ThresholdOf(body.check_type)
      ELSE FloorOf(EvaluatedDimensions)

\* C8: every report carries exactly one of the verdicts pass, warn, fail:
\* fail below 0.70, warn from 0.70 up to the smallest threshold of the
\* dimensions evaluated, pass otherwise
C8_VerdictRule ==
    \A body \in PersistedReports :
        ReportVerdict(body) = SpecVerdict(ReportScore(body), ReportFloor(body))

\* C9: a run that produces a score persists exactly one report
C9_ExactlyOneReport ==
    (RunScored /\ check_type \in Dimensions \cup {"comprehensive"})
        => Cardinality(PersistedReports) = 1

\* sns.publish raised for an alert of this run
PublishFailed == alerts_generated # <<>> /\ ~up.sns

\* the report an alert was generated from
AlertReport(alert) ==
    IF "qualityReport" \in DOMAIN alert
      THEN alert.qualityReport
      ELSE [checks |-> alert.details, overallQualityScore |-> alert.overallQualityScore]

\* the report is held by every report store that accepts writes
ReportKept(report) ==
    IF prog = "pipeline"
      THEN /\ up.s3 => \E k \in 1..Len(s3_objects) : s3_objects[k].body = report
           /\ up.index => \E k \in 1..Len(os_indices.quality_reports) :
                              os_indices.quality_reports[k].body = report
      ELSE up.index => \E k \in 1..Len(os_indices.data_quality_checks) :
                           os_indices.data_quality_checks[k].body = report

\* C10: when publishing an alert fails, the run still completes and returns
\* its score as a successful result, and the report persisted for the alert
\* is still in the report store, unaltered
C10_PublishFailureIsNotFatal ==
    PublishFailed
        => /\ \A k \in 1..Len(alerts_generated) : ReportKept(AlertReport(alerts_generated[k]))
           /\ pc = "done"
                 => /\ response.statusCode = 200
                    /\ CombinedRun \/ RunScore = AlertScore(alerts_generated[1])
                    /\ prog = "handler" => FMulInt(AlertScore(alerts_generated[1]), 100) = RunScore

C10_Witness ==
    /\ pc = "done"
    /\ PublishFailed
    /\ up.s3 /\ up.index
    /\ response.statusCode = 200
    /\ PersistedReports # {}

\* ------------------------------------------- claims about the check methods
\* a check method has been run and has returned
Audited == pc = "done" /\ audit.checker # "none"

AuditedBy(checkers) == Audited /\ audit.checker \in checkers

\* the check method ended in its failed outcome
AuditFailed ==
    \/ audit.report = Raised
    \/ "status" \in DOMAIN audit.report /\ audit.report.status = "failed"

\* the store could be reached by every query of the check method
StoreReached == audit.failed = {}

\* C11: a check method one of whose queries cannot reach the document store
\* ends in the failed outcome; it reports no score
C11_UnreachableStoreFailsChecker ==
    (Audited /\ ~StoreReached) => AuditFailed

\* number of documents the index held when the check method read it
HeldDocuments(index) ==
    IF audit.checker \in {"Pipeline.check_data_completeness",
                          "Handler.check_data_completeness"}
      THEN Len(audit.held[index])
    ELSE IF audit.checker = "Pipeline.check_data_accuracy"
      THEN audit.held[index]
    ELSE audit.held[index].total

\* the score the check method reports for the index, on the scale 0..1
IndexScore(index) ==
    LET result == audit.details[index]
    IN IF "completeness_score" \in DOMAIN result THEN result.completeness_score
       ELSE IF "accuracy_score" \in DOMAIN result THEN result.accuracy_score
       ELSE IF "timeliness_score" \in DOMAIN result THEN result.timeliness_score
       ELSE IF "uniqueness_score" \in DOMAIN result THEN result.uniqueness_score
       ELSE IF "completenessPercentage" \in DOMAIN result
         THEN FDivInt(result.completenessPercentage, 100)
       ELSE FDivInt(result.freshnessPercentage, 100)

\* C12: the completeness, timeliness and uniqueness checkers succeed and
\* report the score 1.0 for every collection that holds no document
C12_EmptyCollectionScoresOne ==
    (/\ AuditedBy({"Pipeline.check_data_completeness", "Pipeline.check_data_timeliness",
                   "Pipeline.check_data_uniqueness", "Handler.check_data_completeness",
                   "Handler.check_data_timeliness"})
     /\ StoreReached)
        => \A index \in DOMAIN audit.held :
              HeldDocuments(index) = 0
                  => /\ ~AuditFailed
                     /\ index \in DOMAIN audit.details
                     /\ IndexScore(index) = FInt(1)

\* C13: the uniqueness checker counts, for every group of documents with the
\* same identity value, the occurrences beyond the first, and scores a
\* non-empty collection (totalDocs - duplicateCount) / totalDocs
C13_DuplicatesAreExtraOccurrences ==
    (/\ AuditedBy({"Pipeline.check_data_uniqueness", "Handler.check_data_uniqueness"})
     /\ StoreReached)
        => \A index \in DOMAIN audit.held :
              LET groups == audit.held[index].buckets
                  totalDocs == audit.held[index].total
                  duplicateCount == SumSeq(groups) - Len(groups)
                  result == audit.details[index]
              IN IF audit.checker = "Pipeline.check_data_uniqueness"
                   THEN /\ result.duplicate_documents = duplicateCount
                        /\ totalDocs > 0
                              => result.uniqueness_score
                                     = Frac(totalDocs - duplicateCount, totalDocs)
                   ELSE result.duplicateRecords = duplicateCount

\* C14: the completeness checker counts a document as complete only if it
\* carries every required field of its collection
C14_CompleteMeansEveryField ==
    (/\ AuditedBy({"Pipeline.check_data_completeness", "Handler.check_data_completeness"})
     /\ StoreReached)
        => \A index \in DOMAIN audit.details :
              LET documents == audit.held[index]
                  required == IF audit.checker = "Pipeline.check_data_completeness"
                                THEN required_fields[index]
                                ELSE Handler_required_fields
                  complete == Cardinality({i \in 1..Len(documents) :
                                              required \subseteq documents[i]})
                  result == audit.details[index]
              IN IF audit.checker = "Pipeline.check_data_completeness"
                   THEN result.complete_documents = complete
                   ELSE result.totalDocuments - result.missingFields = complete

\* what the validator's answer says: the text starts with the verdict
StartsWith(word, text) == Len(text) >= Len(word) /\ SubSeq(text, 1, Len(word)) = word

JudgedAccurate(answer) == StartsWith(TextACCURATE, upper(answer))

\* positions of the sampled documents of the index the validator answered for
Validated(index) ==
    {i \in 1..Len(audit.answers[index]) : audit.answers[index][i] # ValidatorError}

\* C15: the accuracy score of a collection is the number of sampled
\* documents the validator judged accurate divided by the sample size; a
\* document the validator answers inaccurate for is not counted as accurate
C15_AccuracyIsAccurateOverSample ==
    (/\ AuditedBy({"Pipeline.check_data_accuracy"})
     /\ StoreReached
     /\ \A index \in DOMAIN audit.answers : Validated(index) = 1..Len(audit.answers[index]))
        => \A index \in DOMAIN audit.details :
              LET answers == audit.answers[index]
                  accurateDocs == Cardinality({i \in 1..Len(answers) :
                                                  JudgedAccurate(answers[i])})
                  result == audit.details[index]
              IN /\ result.accurate_documents = accurateDocs
                 /\ result.accuracy_score = Frac(accurateDocs, Len(answers))

\* C16: a sampled document for which the validator itself fails is left out
\* of the numerator and of the denominator of the accuracy score
C16_ValidatorFailureIsExcluded ==
    (AuditedBy({"Pipeline.check_data_accuracy"}) /\ StoreReached)
        => \A index \in DOMAIN audit.details :
              LET answers == audit.answers[index]
                  result == audit.details[index]
              IN /\ result.total_documents = Cardinality(Validated(index))
                 /\ result.accurate_documents
                       = Cardinality({i \in Validated(index) :
                                         validate_document_accuracy(answers[i])})

\* C17: when no sampled document remains after the exclusions, the accuracy
\* checker ends in the failed outcome and reports no score
C17_EmptySampleIsAFailure ==
    (/\ AuditedBy({"Pipeline.check_data_accuracy"})
     /\ StoreReached
     /\ \A index \in DOMAIN audit.answers : Validated(index) = {})
        => AuditFailed

\* C18: the timeliness score of a non-empty collection is the number of its
\* documents inside the window divided by the number of its documents, so a
\* collection that holds a document older than the window scores below 1
C18_TimelinessIsRecentOverTotal ==
    (/\ AuditedBy({"Pipeline.check_data_timeliness", "Handler.check_data_timeliness"})
     /\ StoreReached)
        => \A index \in DOMAIN audit.held :
              LET totalDocs == audit.held[index].total
                  recentDocs == audit.held[index].matching
              IN totalDocs > 0
                    => /\ IndexScore(index) = Frac(recentDocs, totalDocs)
                       /\ recentDocs < totalDocs => FLt(IndexScore(index), FInt(1))

\* C19: the consistency score is the number of brands with at least one
\* trial divided by the number of brands, and a brand without a trial is
\* counted as an inconsistency and never makes the checker fail
C19_ConsistencyIsRelatedOverTotal ==
    (/\ AuditedBy({"Handler.check_data_consistency"})
     /\ StoreReached
     /\ audit.held # <<>>)
        => LET brands == audit.held
               related == {k \in 1..Len(brands) : brands[k].trials > 0}
           IN /\ ~AuditFailed
              /\ audit.report.consistencyPercentage
                    = FMulInt(Frac(Cardinality(related), Len(brands)), 100)

\* C20: a check method invoked twice in succession, with no outside change
\* to the document store, the same client calls succeeding and the same
\* validator answers, reports the same score both times
C20_SameStoreSameScore ==
    (/\ Audited
     /\ previous.checker # "none"
     /\ previous.failed = {}
     /\ audit.failed = {}
     /\ "answers" \in DOMAIN audit => audit.answers = previous.answers)
        => audit.report = previous.report

\* ------------------------------------------------ claims about the reports
\* the canonical order of the dimensions in a report
CanonicalOrder == <<"completeness", "accuracy", "timeliness", "consistency", "uniqueness">>

\* the dimension an entry of a report's result list belongs to
DimensionOf(entry) ==
    IF "check" \in DOMAIN entry THEN entry.check
    ELSE CHOOSE d \in Dimensions :
            entry.checkName = CASE d = "completeness" -> "Data Completeness"
                                [] d = "accuracy" -> "Data Accuracy"
                                [] d = "timeliness" -> "Data Timeliness"
                                [] d = "consistency" -> "Data Consistency"
                                [] d = "uniqueness" -> "Data Uniqueness"

\* the list of results a persisted report of a combined run carries
DimensionResults(body) ==
    IF "individual_checks" \in DOMAIN body THEN body.individual_checks
    ELSE IF "checks" \in DOMAIN body THEN body.checks
    ELSE <<>>

PositionIn(order, d) == CHOOSE k \in 1..Len(order) : order[k] = d

\* C22: the dimension results of a persisted report appear in the canonical
\* order completeness, accuracy, timeliness, consistency, uniqueness
C22_ResultsInCanonicalOrder ==
    \A body \in PersistedReports :
        LET entries == DimensionResults(body)
        IN \A i, j \in 1..Len(entries) :
              i < j => PositionIn(CanonicalOrder, DimensionOf(entries[i]))
                          < PositionIn(CanonicalOrder, DimensionOf(entries[j]))

\* x lies in the closed range 0..1
InUnitRange(x) == FGe(x, FInt(0)) /\ FGe(FInt(1), x)

\* the check methods that report a score for every index they audit
ScoresPerIndex ==
    {"Pipeline.check_data_completeness", "Pipeline.check_data_accuracy",
     "Pipeline.check_data_timeliness", "Pipeline.check_data_uniqueness",
     "Handler.check_data_completeness", "Handler.check_data_timeliness"}

\* the overall score of the audited check method, on the scale 0..1
AuditedOverallScore ==
    IF "overall_score" \in DOMAIN audit.report
      THEN audit.report.overall_score
      ELSE FDivInt(Handler_check_score(audit.report), 100)

\* C26: every score a check method reports for an index, and its overall
\* score, lies in the closed range 0..1 (0..100 for the handler's
\* percentages), also when a count comes from the count fallback
C26_ScoresInRange ==
    (Audited /\ ~AuditFailed)
        => /\ audit.checker \in ScoresPerIndex
                 => \A index \in DOMAIN audit.details : InUnitRange(IndexScore(index))
           /\ InUnitRange(AuditedOverallScore)

\* C29: one invocation, of any check type, publishes at most one alert to
\* the alert topic
C29_AtMostOneAlertPerRun == Len(sns_messages) <= 1

\* ids under which the object store holds a report: the key is
\* quality-reports/<report id>.json
ObjectStoreIds == {s3_objects[k].key[2] : k \in 1..Len(s3_objects)}

\* ids under which the 'quality_reports' index holds a report
SearchIndexIds ==
    {os_indices.quality_reports[k].id : k \in 1..Len(os_indices.quality_reports)}

\* C30: a report is in the object store under its id exactly when it is in
\* the search index under the same id, also when one of the two writes fails
C30_ReportCopiesAgree == ObjectStoreIds = SearchIndexIds

\* the report an alert was raised from is in the report store of the entry
\* point: bucket and index for the pipeline, index for the handler
ReportStored(report) ==
    IF prog = "pipeline"
      THEN /\ \E k \in 1..Len(s3_objects) : s3_objects[k].body = report
           /\ \E k \in 1..Len(os_indices.quality_reports) :
                 os_indices.quality_reports[k].body = report
      ELSE \E k \in 1..Len(os_indices.data_quality_checks) :
              os_indices.data_quality_checks[k].body = report

\* C23: a run scores, then persists the report, then evaluates the alert
\* policy: whenever an alert has been sent to the alert topic, the report it
\* was raised from is in the report store
C23_ReportStoredBeforeAlert ==
    \A k \in 1..Len(sns_messages) : ReportStored(AlertReport(sns_messages[k]))

\* C28: a run leaves the contents of every index it audits as it found
\* them: it adds, modifies or deletes no document of an audited index
C28_AuditedCollectionsUnchanged ==
    Audited => \A index \in DOMAIN audit.held : collections[index] = audit.held[index]

\* --------------------------------------------- claims about finishing runs
\* alerts the policy has raised that the notification sink has not received
Undelivered ==
    {k \in 1..Len(alerts_generated) :
        \A j \in 1..Len(sns_messages) : sns_messages[j] # alerts_generated[k]}

\* C24: every alert the alert policy raises is eventually delivered to the
\* notification sink at least once, also when a publish attempt fails
C24_AlertEventuallyDelivered == (Undelivered # {}) ~> (Undelivered = {})

\* the checkers of the run that have returned, and those not yet called
Terminal == {invoked[k] : k \in 1..Len(invoked)}
Pending == {pending[k] : k \in 1..Len(pending)}

\* the run collects the results of its checkers (a single check of the
\* pipeline returns its result as the response instead)
HasCollector == prog = "handler" \/ (prog = "pipeline" /\ check_type = "comprehensive")

\* no checker was invoked twice, no invoked checker is pending, and the
\* k-th checker invoked has written the k-th result, its own
OneResultEach ==
    /\ \A i, j \in 1..Len(invoked) : invoked[i] = invoked[j] => i = j
    /\ Terminal \cap Pending = {}
    /\ HasCollector
          => /\ Len(results) = Len(invoked)
             /\ \A k \in 1..Len(results) : DimensionOf(results[k]) = invoked[k]
    /\ (~HasCollector /\ pc = "done" /\ invoked # <<>>)
          => invoked = <<check_type>> /\ response # NoResponse

IsPrefix(s, t) == Len(s) <= Len(t) /\ \A k \in 1..Len(s) : s[k] = t[k]

\* a result that was written stays as it is
TerminalStays == IsPrefix(results, results') /\ IsPrefix(invoked, invoked')

AllTerminal == pc = "done" /\ Pending = {}

\* C27: a checker is invoked at most once per run and writes exactly one
\* result, into its own slot; a written result is never changed; every run
\* eventually reaches the state where all its checkers are terminal
C27_CheckerStateMachine ==
    /\ []OneResultEach
    /\ [][TerminalStays]_vars
    /\ <>AllTerminal

\* a comprehensive run of the pipeline has finished with one result per
\* checker, one of them an error and one a success
C27_Witness ==
    /\ pc = "done"
    /\ prog = "pipeline"
    /\ check_type = "comprehensive"
    /\ Len(results) = Len(Pipeline_checks)
    /\ \E i, j \in 1..Len(results) :
          results[i].status = "error" /\ results[j].status = "success"

\* ------------------------------------------------ claims about later runs
\* keys the metadata bucket was written under, and ids the quality_reports
\* index was written under, in order
ReportKeys == [k \in 1..Len(s3_objects) |-> s3_objects[k].key]
ReportIds == [k \in 1..Len(os_indices.quality_reports) |-> os_indices.quality_reports[k].id]

\* no two writes of the sequence went to the same place
WrittenOnce(written) == \A i, j \in 1..Len(written) : written[i] = written[j] => i = j

\* C21: two distinct runs produce reports with distinct ids, so the report
\* of a later run never overwrites the persisted report of an earlier run
C21_LaterRunNeverOverwrites == WrittenOnce(ReportKeys) /\ WrittenOnce(ReportIds)

\* ------------------------------------- claims about a comprehensive run
\* what check_data_timeliness would have counted on the store as it was
\* when the run started
StartCounts ==
    [index \in timeliness_indices |->
        [total |-> Len(RunStart(index)), matching |-> audit.held[index].matching]]

====
